---- MODULE Spec2Model ----
(***************************************************************************)
(* A model of linya's progress bar coordinator (src/src/lib.rs): the       *)
(* `Progress` aggregate with its rows (`SubBar`), the handles (`Bar`), the *)
(* redraw algorithm (`draw_impl`) and the scoped log writer                *)
(* (`WriteHandle`).  Handles are 0-based as in the source; row h of the    *)
(* vector is bars[h + 1].                                                  *)
(***************************************************************************)
EXTENDS Integers, Sequences, FiniteSets, TLC

(***************************************************************************)
(* Bounds of the model.                                                    *)
(***************************************************************************)
MaxBars == 2
SmallTotal == 1
BigTotal == 200
TermWidth == 20
NumThreads == 2

\* `unwrap_or(100)`: the width used by `bar` when there is no terminal.
DefaultWidth == 100

\* Targets: one that is reached and passed, one so large that a step of
\* progress leaves the percentage where it was.
Totals == {SmallTotal, BigTotal}
\* Progress values: nothing, the small target, twice the small target.
MaxValue == 2 * SmallTotal
Values == {0, SmallTotal, MaxValue}
Deltas == {SmallTotal}
\* Terminal heights: as tall as the fullest stack of rows, and one taller.
Heights == {MaxBars, MaxBars + 1}
Labels == {"dl"}
Threads == 1..NumThreads
\* `Option<(usize, usize)>`: <<>> is None, <<w, h>> is Some((w, h)).
Sizes == {<<>>} \cup {<<TermWidth, h>> : h \in Heights}

VARIABLES
    bars,             \* Progress.bars: the rows, in creation order
    size,             \* Progress.size: terminal geometry sampled once
    handles,          \* the `Bar` values still owned by callers
    lock,             \* 0, or the thread holding the Mutex guard and a WriteHandle
    overflow_checks,  \* the build profile: TRUE panics on integer overflow, FALSE wraps
    fault,            \* "none", or the panic that ended the program
    last,             \* the most recent coordinator call
    out,              \* what that call wrote to the sink, in order
    term              \* the screen of the terminal behind the sink, if watched

vars == <<bars, size, handles, lock, overflow_checks, fault, last, out, term>>

(***************************************************************************)
(* Text formatting (`format!` padding) and the output tokens.              *)
(***************************************************************************)
RECURSIVE Rep(_, _)
Rep(c, n) == IF n <= 0 THEN "" ELSE c \o Rep(c, n - 1)

\* `{:<n$}`: pad on the right up to n characters, never truncate.
PadRight(s, n) == s \o Rep(" ", n - Len(s))

\* `{:3}` on a number: pad on the left up to n characters, never truncate.
PadLeft(s, n) == Rep(" ", n - Len(s)) \o s

Flush == [k |-> "flush"]
Newline == [k |-> "newline"]
\* "\x1B[s\x1B[{pos}A\r"
SaveUp(pos) == [k |-> "save_up", n |-> pos]
\* "\x1B[u\r"
Restore == [k |-> "restore"]
\* "\x1B[{n}A\x1B[2K\r"
UpClear(n) == [k |-> "up_clear", n |-> n]
LogText == [k |-> "text"]
BarText(h, s) == [k |-> "bar", row |-> h, text |-> s]
InitText(s) == [k |-> "init", text |-> s]

\* A variant in which the `Result` of a write is unwrapped.
IoFaultUnwrap(ok) == IF ok THEN "none" ELSE "io_panic"

\* `let _ = write!(...)`: the `Result` of a write is dropped.
IoFault(ok) == "none"

(***************************************************************************)
(* Pure helpers of the source.                                             *)
(***************************************************************************)
\* A reduction whose thresholds are exclusive (`>` for `>=`).
denominationExclusive(curr) ==
    IF curr > 1000000000 THEN <<curr \div 1000000000, "G">>
    ELSE IF curr > 1000000 THEN <<curr \div 1000000, "M">>
    ELSE IF curr > 1000 THEN <<curr \div 1000, "K">>
    ELSE <<curr, " ">>

\* `fn denomination(curr: usize) -> (usize, char)`
denomination(curr) ==
    IF curr >= 1000000000 THEN <<curr \div 1000000000, "G">>
    ELSE IF curr >= 1000000 THEN <<curr \div 1000000, "M">>
    ELSE IF curr >= 1000 THEN <<curr \div 1000, "K">>
    ELSE <<curr, " ">>

\* A fill field one column wider.
FillWidthWider(term_width) == (term_width \div 2) - 6

\* `(term_width / 2) - 7`
FillWidth(term_width) == (term_width \div 2) - 7

\* `term_width - w - 8 - 5`
LabelWidth(term_width) == term_width - FillWidth(term_width) - 8 - 5

\* A percentage that rounds up instead of down.
PercentCeil(b) == (100 * b.curr + b.total - 1) \div b.total

\* `(100 * b.curr as u64) / (b.total as u64)`
Percent(b) == (100 * b.curr) \div b.total

\* u64 subtraction.  2^64 is outside TLC's integers, so a wrapped result is
\* kept as the pair (overflow, value) standing for 2^64 + value, value < 0.
SubU64(a, b) == [overflow |-> a < b, value |-> a - b]

\* `diff >= 1` on that u64: a wrapped difference 2^64 + value is at least 1.
AtLeastOne(diff) == IF diff.overflow THEN TRUE ELSE diff.value >= 1

\* A throttle that lets an unchanged percentage through (`diff >= 0`).
ShouldDrawUnchanged(pos, term_height, diff, force) ==
    (pos < term_height /\ (diff.overflow \/ diff.value >= 0)) \/ force

\* A throttle that does not look at the window (`pos < term_height` dropped).
ShouldDrawAnywhere(pos, term_height, diff, force) == AtLeastOne(diff) \/ force

\* `(pos < term_height && diff >= 1) || force`
ShouldDraw(pos, term_height, diff, force) ==
    (pos < term_height /\ AtLeastOne(diff)) \/ force

\* The three shapes of the fill field and what follows it.
BarTail(b, w) ==
    IF b.cancelled THEN Rep("_", w) \o "] ??? "
    ELSE IF b.curr >= b.total THEN Rep("#", w) \o "] 100%"
    ELSE LET q == (w * b.curr) \div b.total
             f == IF q < w - 1 THEN q ELSE w - 1
             e == (w - 1) - f
         IN  Rep("#", f) \o ">" \o Rep("-", e) \o "] "
                \o PadLeft(ToString(Percent(b)), 3) \o "%"

\* The text of one row: label, magnitude and unit, fill field, percentage.
BarLine(b, term_width) ==
    LET w == FillWidth(term_width)
        d == denomination(b.curr)
    IN  PadRight(b.label, LabelWidth(term_width)) \o " "
            \o PadLeft(ToString(d[1]), 3) \o d[2] \o " [" \o BarTail(b, w)

\* The initial "empty" rendering written by `bar`.
InitLine(label, twidth) ==
    PadRight(label, LabelWidth(twidth)) \o "      ["
        \o Rep("-", FillWidth(twidth)) \o "]   0%"

\* A constructor that clamps a zero target to one.
NewSubBarClamped(total, label) ==
    [curr |-> 0, prev_percent |-> 0, total |-> IF total = 0 THEN 1 ELSE total,
     label |-> label, cancelled |-> FALSE]

\* `SubBar { curr: 0, prev_percent: 0, total, label, cancelled: false }`
NewSubBar(total, label) ==
    [curr |-> 0, prev_percent |-> 0, total |-> total, label |-> label,
     cancelled |-> FALSE]

\* A draw_impl that falls back to a default geometry, as `bar` does.
DrawSizeOrDefault(sz) == IF sz = <<>> THEN <<DefaultWidth, MaxBars + 1>> ELSE sz

\* `if let Some((term_width, term_height)) = self.size`
DrawSize(sz) == sz

\* An offset counted from the top of the stack instead of from the cursor.
PosFromTop(bs, h) == h + 1

\* `let pos = self.bars.len() - bar.0;`
Pos(bs, h) == Len(bs) - h

(***************************************************************************)
(* draw_impl: the rows and the output after one call, or the panic.        *)
(***************************************************************************)
DrawImpl(bs, h, force) ==
    IF DrawSize(size) = <<>> THEN [bars |-> bs, out |-> <<>>, fault |-> "none"]
    ELSE
    LET term_width == DrawSize(size)[1]
        term_height == DrawSize(size)[2]
        pos == Pos(bs, h)
        b == bs[h + 1]
    IN  IF b.total = 0
        THEN [bars |-> bs, out |-> <<>>, fault |-> "div_zero"]
        ELSE
        LET cur_percent == Percent(b)
            diff == SubU64(cur_percent, b.prev_percent)
        IN  IF diff.overflow /\ overflow_checks
            THEN [bars |-> bs, out |-> <<>>, fault |-> "sub_overflow"]
            ELSE IF ShouldDraw(pos, term_height, diff, force)
            THEN [bars |-> [bs EXCEPT ![h + 1].prev_percent = cur_percent],
                  out |-> (IF ~force THEN <<SaveUp(pos)>> ELSE <<>>)
                          \o <<BarText(h, BarLine(b, term_width))>>
                          \o (IF ~force THEN <<Restore>> ELSE <<Newline>>),
                  fault |-> "none"]
            ELSE [bars |-> bs, out |-> <<>>, fault |-> "none"]

\* A set that also forgets the percentage of the last redraw.
SetCurrAndForget(bs, h, value) ==
    [bs EXCEPT ![h + 1].curr = value, ![h + 1].prev_percent = 0]

\* `set`: a plain assignment.
SetCurr(bs, h, value) == [bs EXCEPT ![h + 1].curr = value]

\* `draw`: draw_impl without force, then a flush.
DrawResult(bs, h) ==
    LET r == DrawImpl(bs, h, FALSE)
    IN  IF r.fault # "none" THEN r
        ELSE [r EXCEPT !.out = r.out \o <<Flush>>]

\* A release that takes the window to be one row shorter (`h` for `h - 1`).
DropStartLate(bs) ==
    IF size = <<>> THEN 0
    ELSE IF Len(bs) >= size[2] THEN Len(bs) - (size[2] - 2) ELSE 0

\* `WriteHandle::drop`: the first row that fits on the screen.
DropStart(bs) ==
    IF size = <<>> THEN 0
    ELSE IF Len(bs) >= size[2] THEN Len(bs) - (size[2] - 1) ELSE 0

\* The loop of `WriteHandle::drop` from row h on, stopping at a panic.
RECURSIVE DropLoop(_, _, _)
DropLoop(bs, h, acc) ==
    IF h >= Len(bs) THEN [bars |-> bs, out |-> acc \o <<Flush>>, fault |-> "none"]
    ELSE LET r == DrawImpl(bs, h, TRUE)
         IN  IF r.fault # "none"
             THEN [bars |-> r.bars, out |-> acc, fault |-> r.fault]
             ELSE DropLoop(r.bars, h + 1, acc \o r.out)

(***************************************************************************)
(* The terminal behind the sink: the lines of the screen, the line the     *)
(* cursor is on, and the line saved by "\x1B[s".  A line shows nothing, a  *)
(* log line, or the text of one row.                                       *)
(***************************************************************************)
Blank == [k |-> "blank"]
LogLine == [k |-> "log"]
RowLine(h) == [k |-> "row", row |-> h]

\* The sink is not watched: no screen is kept.
NoScreen == [lines |-> <<>>, cur |-> 0, saved |-> 0]

\* An empty screen term_height lines high, the cursor on line c.
EmptyScreen(term_height, c) ==
    [lines |-> [i \in 1..term_height |-> Blank], cur |-> c, saved |-> c]

\* "\x1B[{n}A": up n lines, a parameter of 0 counting as 1, stopping at the
\* top of the screen.
CursorUp(c, n) ==
    LET k == IF n < 1 THEN 1 ELSE n
    IN  IF c - k < 1 THEN 1 ELSE c - k

\* "\n": down one line; on the last line the screen scrolls instead.
LineFeed(t) ==
    IF t.cur = Len(t.lines)
    THEN [t EXCEPT !.lines = Tail(t.lines) \o <<Blank>>]
    ELSE [t EXCEPT !.cur = t.cur + 1]

\* The screen after one write; n is the number of rows once the call is over.
ScreenStep(t, tok, n) ==
    CASE tok.k = "flush" -> t
      [] tok.k = "newline" -> LineFeed(t)
      [] tok.k = "save_up" ->
           [t EXCEPT !.saved = t.cur, !.cur = CursorUp(t.cur, tok.n)]
      [] tok.k = "restore" -> [t EXCEPT !.cur = t.saved]
      [] tok.k = "up_clear" ->
           [t EXCEPT !.cur = CursorUp(t.cur, tok.n),
                     !.lines[CursorUp(t.cur, tok.n)] = Blank]
      [] tok.k = "text" -> LineFeed([t EXCEPT !.lines[t.cur] = LogLine])
      [] tok.k = "bar" -> [t EXCEPT !.lines[t.cur] = RowLine(tok.row)]
      [] tok.k = "init" -> [t EXCEPT !.lines[t.cur] = RowLine(n - 1)]

RECURSIVE ScreenRun(_, _, _)
ScreenRun(t, o, n) ==
    IF o = <<>> THEN t ELSE ScreenRun(ScreenStep(t, Head(o), n), Tail(o), n)

\* The screen after the writes o of one call.
Screen(t, o, n) == IF t = NoScreen THEN t ELSE ScreenRun(t, o, n)

(***************************************************************************)
(* The state machine.                                                      *)
(***************************************************************************)
NoCall == [op |-> "new", arg |-> <<>>, val |-> 0, io |-> TRUE, ret |-> "unit", rep |-> FALSE]

Init ==
    /\ bars = <<>>
    /\ size \in Sizes
    /\ handles = {}
    /\ lock = 0
    /\ overflow_checks \in BOOLEAN
    /\ fault = "none"
    /\ last = NoCall
    /\ out = <<>>
    /\ term = NoScreen

\* A caller that reaches the coordinator without taking the lock.
LockFreeIgnored == TRUE

\* `progress.lock().unwrap()`: a call starts only with the lock free, and
\* holds it up to the end of its statement.
LockFree == lock = 0

Running == fault = "none"

\* The end of a call: r is what the call computed, ok the health of the sink.
Commit(op, arg, val, ret, r, ok) ==
    \E res \in {r} :
        LET f == IF res.fault # "none" THEN res.fault ELSE IoFault(ok)
        IN  /\ fault' = f
            /\ bars' = IF res.fault = "none" /\ f # "none" THEN bars ELSE res.bars
            /\ out' = res.out
            /\ term' = Screen(term, res.out, Len(res.bars))
            /\ last' = [op |-> op, arg |-> arg, val |-> val, io |-> ok,
                        ret |-> IF f = "none" THEN ret ELSE "panic",
                        rep |-> (op = "draw" /\ last.op = "draw" /\ last.arg = arg)]

\* A handle that names the row count after the push.
NewHandlePastEnd(bs) == Len(bs)

\* `Bar(self.bars.len() - 1)`, bs being the rows after the push.
NewHandle(bs) == Len(bs) - 1

\* Progress::bar
NewBar(total, label, ok) ==
    /\ Running /\ LockFree
    /\ Len(bars) < MaxBars
    /\ LET twidth == IF size = <<>> THEN DefaultWidth ELSE size[1]
           r == [bars |-> Append(bars, NewSubBar(total, label)),
                 out |-> <<InitText(InitLine(label, twidth)), Newline, Flush>>,
                 fault |-> "none"]
       IN  /\ Commit("bar", <<NewHandle(r.bars)>>, total, "handle", r, ok)
           /\ handles' = IF fault' = "none" THEN handles \cup {NewHandle(r.bars)}
                         ELSE handles
    /\ UNCHANGED <<size, lock, overflow_checks>>

\* Progress::set
Set(h, value) ==
    /\ Running /\ LockFree
    /\ h \in handles
    /\ Commit("set", <<h>>, value, "unit",
              [bars |-> SetCurr(bars, h, value), out |-> <<>>, fault |-> "none"], TRUE)
    /\ UNCHANGED <<size, handles, lock, overflow_checks>>

\* Progress::draw
Draw(h, ok) ==
    /\ Running /\ LockFree
    /\ h \in handles
    /\ Commit("draw", <<h>>, 0, "unit", DrawResult(bars, h), ok)
    /\ UNCHANGED <<size, handles, lock, overflow_checks>>

\* Progress::set_and_draw
SetAndDraw(h, value, ok) ==
    /\ Running /\ LockFree
    /\ h \in handles
    /\ Commit("set_and_draw", <<h>>, value, "unit",
              DrawResult(SetCurr(bars, h, value), h), ok)
    /\ UNCHANGED <<size, handles, lock, overflow_checks>>

\* Progress::inc
Inc(h, value) ==
    /\ Running /\ LockFree
    /\ h \in handles
    /\ bars[h + 1].curr + value <= MaxValue
    /\ Commit("inc", <<h>>, value, "unit",
              [bars |-> SetCurr(bars, h, bars[h + 1].curr + value),
               out |-> <<>>, fault |-> "none"], TRUE)
    /\ UNCHANGED <<size, handles, lock, overflow_checks>>

\* Progress::inc_and_draw
IncAndDraw(h, value, ok) ==
    /\ Running /\ LockFree
    /\ h \in handles
    /\ bars[h + 1].curr + value <= MaxValue
    /\ Commit("inc_and_draw", <<h>>, value, "unit",
              DrawResult(SetCurr(bars, h, bars[h + 1].curr + value), h), ok)
    /\ UNCHANGED <<size, handles, lock, overflow_checks>>

\* A completion test that misses a value past the target.
DoneExactly(b) == b.curr = b.total

\* `b.curr >= b.total`
Done(b) == b.curr >= b.total

\* Progress::is_done
IsDone(h) ==
    /\ Running /\ LockFree
    /\ h \in handles
    /\ Commit("is_done", <<h>>, 0,
              IF Done(bars[h + 1]) THEN "true" ELSE "false",
              [bars |-> bars, out |-> <<>>, fault |-> "none"], TRUE)
    /\ UNCHANGED <<size, handles, lock, overflow_checks>>

\* A cancel that forgets to reset prev_percent.
MarkCancelledNoReset(bs, h) == [bs EXCEPT ![h + 1].cancelled = TRUE]

\* A cancel that borrows the handle (`&Bar`) and leaves it usable.
ConsumeBorrowed(hs, h) == hs

\* `cancel(&mut self, bar: Bar)`: the handle is moved into the call.
Consume(hs, h) == hs \ {h}

\* The first block of `cancel`: the flag and the reset of prev_percent.
MarkCancelled(bs, h) ==
    [bs EXCEPT ![h + 1].cancelled = TRUE, ![h + 1].prev_percent = 0]

\* Progress::cancel, which consumes the handle.
Cancel(h, ok) ==
    /\ Running /\ LockFree
    /\ h \in handles
    /\ LET marked == MarkCancelled(bars, h)
       IN  Commit("cancel", <<h>>, 0, "unit",
                  DrawResult(SetCurr(marked, h, marked[h + 1].total), h), ok)
    /\ handles' = Consume(handles, h)
    /\ UNCHANGED <<size, lock, overflow_checks>>

\* Progress::stderr: thread t takes the lock and holds a WriteHandle.
Stderr(t, ok) ==
    /\ Running /\ LockFree
    /\ Commit("stderr", <<>>, 0, "handle",
              [bars |-> bars, out |-> <<UpClear(Len(bars))>>, fault |-> "none"], ok)
    /\ lock' = IF fault' = "none" THEN t ELSE lock
    /\ UNCHANGED <<size, handles, overflow_checks>>

\* WriteHandle::write_str: the error of the sink is mapped to fmt::Error.
WriteStr(t, ok) ==
    /\ Running
    /\ lock = t
    /\ fault' = fault
    /\ bars' = bars
    /\ out' = <<LogText>>
    /\ term' = Screen(term, <<LogText>>, Len(bars))
    /\ last' = [op |-> "write_str", arg |-> <<>>, val |-> 0, io |-> ok,
                ret |-> IF ok THEN "Ok" ELSE "Err", rep |-> FALSE]
    /\ UNCHANGED <<size, handles, lock, overflow_checks>>

\* WriteHandle::drop: the forced repaint, then the guard is released.
DropHandle(t, ok) ==
    /\ Running
    /\ lock = t
    /\ Commit("drop", <<>>, 0, "unit", DropLoop(bars, DropStart(bars), <<>>), ok)
    /\ lock' = 0
    /\ UNCHANGED <<size, handles, overflow_checks>>

\* One call: a target from Tot, a label from Lab, and the sink healthy (TRUE)
\* or failing (FALSE) as Sink allows.
CallOn(Tot, Lab, Sink) ==
    \/ \E total \in Tot, label \in Lab, ok \in Sink : NewBar(total, label, ok)
    \/ \E h \in handles, value \in Values : Set(h, value)
    \/ \E h \in handles, ok \in Sink : Draw(h, ok)
    \/ \E h \in handles, value \in Values, ok \in Sink : SetAndDraw(h, value, ok)
    \/ \E h \in handles, value \in Deltas : Inc(h, value)
    \/ \E h \in handles, value \in Deltas, ok \in Sink : IncAndDraw(h, value, ok)
    \/ \E h \in handles : IsDone(h)
    \/ \E h \in handles, ok \in Sink : Cancel(h, ok)
    \/ \E t \in Threads, ok \in Sink : Stderr(t, ok)
    \/ \E t \in Threads, ok \in Sink : WriteStr(t, ok)
    \/ \E t \in Threads, ok \in Sink : DropHandle(t, ok)

\* One call of a caller that keeps the precondition `total > 0`.
Call(Sink) == CallOn(Totals, Labels, Sink)

\* Every write to the sink succeeds.
Next == Call({TRUE})

Spec == Init /\ [][Next]_vars

\* The sink is broken (a closed pipe): every write and flush fails.
NextIo == Call({FALSE})

SpecIo == Init /\ [][NextIo]_vars

\* A caller that breaks the precondition of `bar` and passes a zero target.
ZeroTotals == {0, SmallTotal}

NextZero == CallOn(ZeroTotals, Labels, {TRUE})

SpecZero == Init /\ [][NextZero]_vars

(***************************************************************************)
(* The coordinator in front of a terminal whose screen is watched.         *)
(***************************************************************************)
\* The program starts with the cursor on the first or on the last line.
InitTerm ==
    /\ bars = <<>>
    /\ size \in {<<TermWidth, h>> : h \in Heights}
    /\ handles = {}
    /\ lock = 0
    /\ overflow_checks \in BOOLEAN
    /\ fault = "none"
    /\ last = NoCall
    /\ out = <<>>
    /\ term \in {EmptyScreen(size[2], c) : c \in {1, size[2]}}

\* Callers that only move a row forward, and that write one line of text,
\* newline included, in each log scope.
NextTerm ==
    \/ \E label \in Labels : NewBar(SmallTotal, label, TRUE)
    \/ \E h \in handles : Draw(h, TRUE)
    \/ \E h \in handles, value \in Deltas : Inc(h, value)
    \/ \E h \in handles, value \in Deltas : IncAndDraw(h, value, TRUE)
    \/ \E h \in handles : Cancel(h, TRUE)
    \/ \E t \in Threads : Stderr(t, TRUE)
    \/ \E t \in Threads : last.op = "stderr" /\ WriteStr(t, TRUE)
    \/ \E t \in Threads : last.op = "write_str" /\ DropHandle(t, TRUE)

SpecTerm == InitTerm /\ [][NextTerm]_vars

(***************************************************************************)
(* The row text as a function of the width, the label and the row state.   *)
(***************************************************************************)
\* The narrowest terminal for which `w - 1` does not underflow.
MinWidth == 16
MaxWidth == 24
RenderWidths == MinWidth..MaxWidth
\* `label: S` is any string: empty, shorter and longer than the label field.
RenderLabels == {"", "dl", "downloading"}
\* Values and targets on both sides of the thresholds of `denomination`.
RenderCurrs == {0, 1, 999, 1000, 1500000}
RenderTotals == {1, 1000, 3000000}
\* A row that `cancel` has not touched, and a row as `cancel` leaves it.
RenderRows ==
    {[curr |-> c, prev_percent |-> 0, total |-> t, label |-> l, cancelled |-> FALSE] :
        c \in RenderCurrs, t \in RenderTotals, l \in RenderLabels}
    \cup
    {[curr |-> t, prev_percent |-> 0, total |-> t, label |-> l, cancelled |-> TRUE] :
        t \in RenderTotals, l \in RenderLabels}

InitRender ==
    /\ bars \in {<<b>> : b \in RenderRows}
    /\ size \in {<<w, MaxBars>> : w \in RenderWidths}
    /\ handles = {}
    /\ lock = 0
    /\ overflow_checks = FALSE
    /\ fault = "none"
    /\ last = NoCall
    /\ out = <<>>
    /\ term = NoScreen

\* The `writeln!` of `bar`: the initial line for the label of the row.
RenderInit ==
    /\ out' = <<InitText(InitLine(bars[1].label, size[1]))>>
    /\ last' = [NoCall EXCEPT !.op = "render_init"]
    /\ UNCHANGED <<bars, size, handles, lock, overflow_checks, fault, term>>

\* The `write!`s of draw_impl: the text of the row in its present state.
RenderRow ==
    /\ out' = <<BarText(0, BarLine(bars[1], size[1]))>>
    /\ last' = [NoCall EXCEPT !.op = "render_row"]
    /\ UNCHANGED <<bars, size, handles, lock, overflow_checks, fault, term>>

NextRender == RenderInit \/ RenderRow

SpecRender == InitRender /\ [][NextRender]_vars

(***************************************************************************)
(* `denomination` as a function of the value of a row.                     *)
(***************************************************************************)
Spread == 8
\* The steps of the scale, and a value inside the last step.
Thresholds == {0, 1000, 1000000, 1000000000, 2000000000}
\* The values within Spread of a threshold, and one in the middle of a step.
Magnitudes ==
    {m \in UNION {(t - Spread)..(t + Spread) : t \in Thresholds} : m >= 0}
        \cup {1500000}

InitDenom ==
    /\ bars \in {<<[NewSubBar(1, "dl") EXCEPT !.curr = m]>> : m \in Magnitudes}
    /\ size = <<TermWidth, MaxBars>>
    /\ handles = {0}
    /\ lock = 0
    /\ overflow_checks = FALSE
    /\ fault = "none"
    /\ last = NoCall
    /\ out = <<>>
    /\ term = NoScreen

\* `let (data, unit) = denomination(b.curr);`
Denominate ==
    /\ out' = <<[k |-> "denomination", data |-> denomination(bars[1].curr)[1],
                 unit |-> denomination(bars[1].curr)[2]]>>
    /\ last' = [NoCall EXCEPT !.op = "denomination"]
    /\ UNCHANGED <<bars, size, handles, lock, overflow_checks, fault, term>>

NextDenom == Denominate

SpecDenom == InitDenom /\ [][NextDenom]_vars

(***************************************************************************)
(* Properties.                                                             *)
(***************************************************************************)
\* The rendering tokens of an output: anything but the flush of the sink.
Paint(o) == {i \in 1..Len(o) : o[i].k # "flush"}

\* The row a call was made on.
Target(call) == call.arg[1]

\* The throttle as the documentation states it, on mathematical integers:
\* the row is inside the window and progress advanced at least 1 percent.
Advanced(bs, h) ==
    /\ Len(bs) - h < size[2]
    /\ ((100 * bs[h + 1].curr) \div bs[h + 1].total) - bs[h + 1].prev_percent >= 1

\* C1: with known geometry, draw(handle) repaints the row if and only if
\* (row_count - index) < height and percent - last_percent >= 1; when the
\* condition is false it emits nothing and leaves last_percent unchanged,
\* when it is true it sets last_percent to percent.
C1_DrawIffAdvanced ==
    [][(last'.op = "draw" /\ size # <<>>) =>
        LET h == Target(last')
        IN  /\ (Paint(out') # {}) <=> Advanced(bars, h)
            /\ ~Advanced(bars, h) => bars' = bars /\ fault' = "none"
            /\ Advanced(bars, h) =>
                 bars'[h + 1].prev_percent
                    = (100 * bars[h + 1].curr) \div bars[h + 1].total]_vars

\* C2: a draw that directly follows a draw of the same handle repaints
\* nothing: it writes no escape sequence and no bar text, changes no row
\* and does not fault.
C2_SecondDrawSilent ==
    [][(last'.op = "draw" /\ last'.rep) =>
        /\ Paint(out') = {}
        /\ bars' = bars
        /\ fault' = "none"]_vars

\* C2's case: a second draw of a visible row whose first draw had something
\* to show.
C2_Witness ==
    /\ last.op = "draw" /\ last.rep /\ fault = "none"
    /\ size # <<>>
    /\ Len(bars) - Target(last) < size[2]
    /\ bars[Target(last) + 1].prev_percent > 0
    /\ bars[Target(last) + 1].prev_percent
         = (100 * bars[Target(last) + 1].curr) \div bars[Target(last) + 1].total

\* The line of a cancelled row as the source formats it: the cancel
\* character across the whole fill field, then "??? ".
CancelLine(b, term_width) ==
    PadRight(b.label, term_width - ((term_width \div 2) - 7) - 13) \o " "
        \o PadLeft(ToString(denomination(b.curr)[1]), 3) \o denomination(b.curr)[2]
        \o " [" \o Rep("_", (term_width \div 2) - 7) \o "] ??? "

\* The same line ending in "???%", as the specification words it.
CancelLinePercent(b, term_width) ==
    PadRight(b.label, term_width - ((term_width \div 2) - 7) - 13) \o " "
        \o PadLeft(ToString(denomination(b.curr)[1]), 3) \o denomination(b.curr)[2]
        \o " [" \o Rep("_", (term_width \div 2) - 7) \o "] ???%"

\* C3 as stated: cancel marks the row cancelled, sets current to target and
\* the redraw it triggers always fires, from every prior row state and
\* position: the row is repainted with the cancel character across the fill
\* field and "???%".
C3_CancelAlwaysRepaints ==
    last.op = "cancel" =>
        LET h == Target(last)
            b == bars[h + 1]
        IN  /\ b.cancelled /\ b.curr = b.total
            /\ \E i \in 1..Len(out) :
                 /\ out[i].k = "bar" /\ out[i].row = h
                 /\ out[i].text = CancelLinePercent(b, TermWidth)

\* C3 amended: cancel marks the row cancelled and sets current to target
\* without a fault; the row is repainted exactly when the geometry is known
\* and (row_count - index) < height, with the cancel character across the
\* fill field and "??? ", leaving last_percent at 100; otherwise nothing is
\* painted and last_percent stays at 0.
C3_CancelRepaintsInWindow ==
    last.op = "cancel" =>
        LET h == Target(last)
            b == bars[h + 1]
        IN  /\ b.cancelled /\ b.curr = b.total /\ fault = "none"
            /\ h \notin handles
            /\ IF size # <<>> /\ Len(bars) - h < size[2]
               THEN /\ out = <<SaveUp(Len(bars) - h),
                               BarText(h, CancelLine(b, size[1])),
                               Restore, Flush>>
                    /\ b.prev_percent = 100
               ELSE /\ out = <<Flush>>
                    /\ b.prev_percent = 0

\* C3's case: the topmost of two rows is cancelled and repainted.
C3_Witness ==
    /\ last.op = "cancel" /\ Target(last) = 0 /\ Len(bars) = 2
    /\ size # <<>> /\ Len(bars) - Target(last) < size[2]
    /\ Paint(out) # {}

\* C4 as stated: no transition leaves Completed or Cancelled: a row with
\* current >= target keeps current >= target, and a cancelled row stays
\* cancelled, across every step.
C4_TerminalStates ==
    [][\A i \in 1..Len(bars) :
        /\ bars[i].curr >= bars[i].total => bars'[i].curr >= bars'[i].total
        /\ bars[i].cancelled => bars'[i].cancelled]_vars

\* C4 amended: Cancelled is terminal (the flag is never reset and current
\* stays at target); current >= target is kept by every step other than a
\* set or set_and_draw on that row.
C4_CancelledIsTerminal ==
    [][\A i \in 1..Len(bars) :
        /\ bars[i].cancelled =>
             /\ bars'[i].cancelled
             /\ bars[i].curr = bars[i].total
             /\ bars'[i].curr = bars'[i].total
        /\ (/\ bars[i].curr >= bars[i].total
            /\ ~(last'.op \in {"set", "set_and_draw"} /\ last'.arg = <<i - 1>>))
             => bars'[i].curr >= bars'[i].total]_vars

\* C4's case: a cancelled row and a completed row have both been through a
\* log scope's forced repaint.
C4_Witness ==
    /\ last.op = "drop" /\ fault = "none"
    /\ size # <<>> /\ Paint(out) # {}
    /\ \E i \in 1..Len(bars) : bars[i].cancelled
    /\ \E i \in 1..Len(bars) : ~bars[i].cancelled /\ bars[i].curr >= bars[i].total

\* The repaint the release of a log scope owes, row by row from row h:
\* each row inside the window as its line and one line break.
RECURSIVE WindowRepaint(_, _)
WindowRepaint(bs, h) ==
    IF h >= Len(bs) THEN <<>>
    ELSE (IF Len(bs) - h < size[2]
          THEN <<BarText(h, BarLine(bs[h + 1], size[1])), Newline>>
          ELSE <<>>) \o WindowRepaint(bs, h + 1)

\* C5: with known geometry the release of a log scope repaints, whatever
\* the throttle says and in increasing index order, exactly the rows i with
\* (row_count - i) < height, each followed by one line break and without
\* cursor save/restore; with no rows it repaints nothing; and the open
\* performs the line clear.
C5_ReleaseRepaintsWindow ==
    /\ (last.op = "drop" /\ size # <<>>) =>
         /\ fault = "none"
         /\ out = WindowRepaint(bars, 0) \o <<Flush>>
    /\ last.op = "stderr" => out = <<UpClear(Len(bars))>>

\* C6: while a log scope is open the only calls that run are the holder's
\* appends and the release: no draw, no new_bar, no second open, and the
\* lock passes to nobody else before the release.
C6_LogScopeExcludesDraws ==
    [][lock # 0 =>
        /\ last'.op \in {"write_str", "drop"}
        /\ lock' \in {lock, 0}
        /\ lock' = 0 <=> last'.op = "drop"
        /\ last'.op = "write_str" => out' = <<LogText>> /\ bars' = bars]_vars

\* C6's case: a log scope is open, text has been appended, and there are
\* live handles whose draws are waiting.
C6_Witness ==
    /\ lock # 0 /\ last.op = "write_str"
    /\ handles # {} /\ size # <<>>
    /\ \E h \in handles :
         /\ Len(bars) - h < size[2]
         /\ (100 * bars[h + 1].curr) \div bars[h + 1].total > bars[h + 1].prev_percent

\* C7: new_bar appends exactly one fresh row and returns the row count
\* before the call; no step removes or reorders rows or changes a row's
\* target or label, and only new_bar changes the row count.
C7_HandlesAreStableIndices ==
    [][/\ Len(bars') >= Len(bars)
       /\ \A i \in 1..Len(bars) :
            bars'[i].total = bars[i].total /\ bars'[i].label = bars[i].label
       /\ last'.op # "bar" => Len(bars') = Len(bars) /\ handles' \subseteq handles
       /\ last'.op = "bar" =>
            /\ Len(bars') = Len(bars) + 1
            /\ last'.arg = <<Len(bars)>>
            /\ handles' = handles \cup {Len(bars)}
            /\ bars'[Len(bars')].curr = 0
            /\ bars'[Len(bars')].prev_percent = 0
            /\ bars'[Len(bars')].cancelled = FALSE
            /\ bars'[Len(bars')].total = last'.val]_vars

\* C7's case: the second row has been created, with handle 1, after the
\* first row was worked on.
C7_Witness ==
    /\ last.op = "bar" /\ last.arg = <<1>> /\ Len(bars) = 2
    /\ bars[1].curr > 0 /\ 1 \in handles

C9_UnknownGeometryIsSilent ==
    [][size = <<>> =>
        /\ fault' = "none"
        /\ last'.op = "bar" =>
             /\ out' = <<InitText(PadRight(bars'[Len(bars')].label, 44) \o "      ["
                                \o Rep("-", 43) \o "]   0%"),
                         Newline, Flush>>
             /\ Len(out'[1].text) = 100
        /\ last'.op \in {"draw", "set_and_draw", "inc_and_draw", "cancel"} =>
             out' = <<Flush>>
        /\ last'.op = "drop" => Paint(out') = {}
        /\ last'.op \in {"set", "set_and_draw"} =>
             bars'[Target(last') + 1].curr = last'.val
        /\ last'.op \in {"inc", "inc_and_draw"} =>
             bars'[Target(last') + 1].curr
                = bars[Target(last') + 1].curr + last'.val]_vars

\* C9's case: without a terminal, a row that was incremented and drawn
\* past its last recorded percentage, with nothing written.
C9_Witness ==
    /\ size = <<>>
    /\ last.op = "inc_and_draw" /\ out = <<Flush>>
    /\ bars[Target(last) + 1].curr >= bars[Target(last) + 1].total
    /\ bars[Target(last) + 1].prev_percent = 0

\* C10 as stated: a call during which the sink fails returns normally, with
\* no error value and no fault.
C10_IoFailureReturnsNormally ==
    ~last.io => last.ret \notin {"Err", "panic"}

\* What a call computes when the sink is healthy, from the rows before it.
Healthy(call, bs, label) ==
    CASE call.op = "bar" ->
           [bars |-> Append(bs, NewSubBar(call.val, label)),
            out |-> <<InitText(InitLine(label,
                                        IF size = <<>> THEN DefaultWidth ELSE size[1])),
                      Newline, Flush>>,
            fault |-> "none"]
      [] call.op = "draw" -> DrawResult(bs, Target(call))
      [] call.op = "set_and_draw" ->
           DrawResult(SetCurr(bs, Target(call), call.val), Target(call))
      [] call.op = "inc_and_draw" ->
           DrawResult(SetCurr(bs, Target(call),
                              bs[Target(call) + 1].curr + call.val), Target(call))
      [] call.op = "cancel" ->
           DrawResult(SetCurr(MarkCancelled(bs, Target(call)), Target(call),
                              bs[Target(call) + 1].total), Target(call))
      [] call.op = "stderr" ->
           [bars |-> bs, out |-> <<UpClear(Len(bs))>>, fault |-> "none"]
      [] call.op = "write_str" ->
           [bars |-> bs, out |-> <<LogText>>, fault |-> "none"]
      [] call.op = "drop" -> DropLoop(bs, DropStart(bs), <<>>)

\* C10 amended: a failing sink changes the outcome of no call: the rows,
\* the writes attempted and the fault (if any) are those of the same call
\* on a healthy sink; the failure is reported only by write_str, as an
\* error value to the caller of the log writer.
C10_IoFailureOnlySeenByWriteStr ==
    [][~last'.io =>
        /\ \E label \in Labels :
             [bars |-> bars', out |-> out', fault |-> fault']
                = Healthy(last', bars, label)
        /\ last'.ret = "Err" <=> last'.op = "write_str"
        /\ last'.ret = "panic" <=> fault' # "none"]_vars

\* C10's case: the sink failed during a set_and_draw of a visible row, and
\* the row still carries the new value and the new percentage.
C10_Witness ==
    /\ ~last.io /\ last.op = "set_and_draw" /\ fault = "none"
    /\ size # <<>> /\ Len(bars) - Target(last) < size[2]
    /\ bars[Target(last) + 1].curr = last.val /\ last.val > 0
    /\ bars[Target(last) + 1].prev_percent > 0

(***************************************************************************)
(* C11: a zero target.                                                     *)
(***************************************************************************)
\* The calls that run draw_impl on the row their handle names.
DrawOps == {"draw", "set_and_draw", "inc_and_draw", "cancel"}

\* The calls that only read or write `curr` of the row their handle names.
ValueOps == {"set", "inc", "is_done"}

\* The rows with a zero target that the release of a log scope repaints.
ZeroInWindow(bs) == {h \in DropStart(bs)..(Len(bs) - 1) : bs[h + 1].total = 0}

\* The part of C11 that does not depend on the geometry: creation with a zero
\* target returns a handle and writes the initial line, and set, inc and
\* is_done on that row return normally.
ZeroTargetIsAccepted ==
    /\ (last'.op = "bar" /\ last'.val = 0) =>
          /\ fault' = "none" /\ last'.ret = "handle"
          /\ Len(bars') = Len(bars) + 1
          /\ bars'[Len(bars')].total = 0
          /\ Target(last') \in handles'
          /\ out'[1].k = "init"
    /\ (last'.op \in ValueOps /\ bars[Target(last') + 1].total = 0) =>
          fault' = "none" /\ last'.ret # "panic"

C12_RedrawMovesUpByRowCountMinusIndex ==
    [][/\ (last'.op \in DrawOps /\ Paint(out') # {}) =>
             /\ Len(out') = 4
             /\ out'[1].k = "save_up"
             /\ out'[1].n = Len(bars') - Target(last')
             /\ Target(last') = 0 => out'[1].n = Len(bars')
             /\ Target(last') = Len(bars') - 1 => out'[1].n = 1
             /\ out'[2].k = "bar" /\ out'[2].row = Target(last')
             /\ out'[3].k = "restore"
             /\ out'[4].k = "flush"
       /\ (last'.op = "bar" /\ fault' = "none") =>
             /\ Len(bars') = Len(bars) + 1
             /\ \A h \in 0..(Len(bars) - 1) :
                  /\ bars'[h + 1] = bars[h + 1]
                  /\ Len(bars') - h = (Len(bars) - h) + 1]_vars

\* C12's case: the stack is full and the topmost row, created first, was
\* repainted MaxBars lines above the cursor.
C12_Witness ==
    /\ last.op = "draw" /\ fault = "none"
    /\ Len(bars) = MaxBars /\ Target(last) = 0
    /\ Len(out) = 4 /\ out[1] = SaveUp(MaxBars) /\ out[3] = Restore

(***************************************************************************)
(* C13: one row, one terminal line.                                        *)
(***************************************************************************)
\* C13: whatever the width of the terminal, the label and the state of the
\* row, the text written for a row (the initial line of `bar` or a repaint)
\* has at most as many characters as the terminal is wide.
C13_RowFitsTerminalWidth ==
    \A i \in 1..Len(out) :
        out[i].k \in {"init", "bar"} => Len(out[i].text) <= size[1]

(***************************************************************************)
(* C14: set, inc and is_done.                                              *)
(***************************************************************************)
\* Everything but the record of the call is as it was.
NothingElseChanges == UNCHANGED <<size, handles, lock, overflow_checks, fault>>

\* C14: is_done answers true exactly when curr >= total of the row it is
\* asked about, writes nothing and changes nothing; set replaces curr of the
\* row it names by the value given and inc adds the value given to it, and
\* neither writes anything nor touches another field or another row.  So
\* after any sequence of set and inc, curr is the last value set plus the
\* later increments, and is_done compares that sum with the target.
C14_IsDoneIffCurrentReachedTarget ==
    [][/\ last'.op = "is_done" =>
             /\ last'.ret = "true" <=>
                  bars[Target(last') + 1].curr >= bars[Target(last') + 1].total
             /\ last'.ret \in {"true", "false"}
             /\ bars' = bars /\ out' = <<>> /\ NothingElseChanges
       /\ last'.op = "set" =>
             /\ bars' = [bars EXCEPT ![Target(last') + 1].curr = last'.val]
             /\ out' = <<>> /\ last'.ret = "unit" /\ NothingElseChanges
       /\ last'.op = "inc" =>
             /\ bars' = [bars EXCEPT ![Target(last') + 1].curr = @ + last'.val]
             /\ out' = <<>> /\ last'.ret = "unit" /\ NothingElseChanges]_vars

\* C14's case: a value was set, an increment took it past the target, and
\* is_done answered true for a row whose curr exceeds its total.
C14_Witness ==
    /\ last.op = "is_done" /\ last.ret = "true"
    /\ bars[Target(last) + 1].curr > bars[Target(last) + 1].total
    /\ out = <<>>

(***************************************************************************)
(* C15: who writes prev_percent.                                           *)
(***************************************************************************)
\* The text of row h is among the writes o.
Painted(o, h) == \E i \in 1..Len(o) : o[i].k = "bar" /\ o[i].row = h

\* The rows whose prev_percent a step changes.
PercentChanged ==
    {h \in 0..(Len(bars) - 1) : bars'[h + 1].prev_percent # bars[h + 1].prev_percent}

\* C15: prev_percent of a row changes only in a call that repaints that row
\* (a draw, set_and_draw or inc_and_draw that passes the throttle, or the
\* forced repaint when a log scope is released) or in cancel of that row.
\* bar, set, inc, is_done, a draw that paints nothing, stderr and write_str
\* change no prev_percent, and a call that repaints only row i leaves the
\* prev_percent of every other row as it was.
C15_LastPercentChangesOnlyInRedraw ==
    [][/\ \A h \in PercentChanged :
             \/ last'.op \in DrawOps /\ Target(last') = h /\ Painted(out', h)
             \/ last'.op = "cancel" /\ Target(last') = h
             \/ last'.op = "drop" /\ Painted(out', h)
       /\ last'.op \in {"bar", "set", "inc", "is_done", "stderr", "write_str"} =>
             PercentChanged = {}
       /\ (last'.op \in {"draw", "set_and_draw", "inc_and_draw"} /\ Paint(out') = {}) =>
             PercentChanged = {}
       /\ last'.op \in DrawOps => PercentChanged \subseteq {Target(last')}]_vars

\* C15's case: row 0 was repainted by set_and_draw and its prev_percent
\* moved to 100, while row 1, whose value has advanced as well, still has
\* the prev_percent it was created with.
C15_Witness ==
    /\ last.op = "set_and_draw" /\ Target(last) = 0 /\ Painted(out, 0)
    /\ Len(bars) = 2
    /\ bars[1].prev_percent = 100
    /\ bars[2].curr > 0 /\ bars[2].prev_percent = 0

(***************************************************************************)
(* C16: denomination.                                                      *)
(***************************************************************************)
\* What one unit of the scale stands for.
UnitScale(unit) ==
    CASE unit = " " -> 1
      [] unit = "K" -> 1000
      [] unit = "M" -> 1000000
      [] unit = "G" -> 1000000000

\* C16: for a magnitude m, denomination gives m itself and no unit below
\* 1000, thousands and K below 10^6, millions and M below 10^9, billions and
\* G from there on; the number shown is the quotient of a truncating
\* division (the remainder is dropped, never rounded up), and it is 0 only
\* for m = 0.  999 gives (999, none), 1000 (1, K), 1500000 (1, M) and
\* 2000000000 (2, G).
C16_DenominationScale ==
    last.op = "denomination" =>
        LET m == bars[1].curr
            d == out[1]
        IN  /\ m < 1000 => d.data = m /\ d.unit = " "
            /\ (1000 <= m /\ m < 1000000) => d.data = m \div 1000 /\ d.unit = "K"
            /\ (1000000 <= m /\ m < 1000000000) =>
                  d.data = m \div 1000000 /\ d.unit = "M"
            /\ 1000000000 <= m => d.data = m \div 1000000000 /\ d.unit = "G"
            /\ m - d.data * UnitScale(d.unit) \in 0..(UnitScale(d.unit) - 1)
            /\ d.data = 0 <=> m = 0
            /\ m = 999 => d.data = 999 /\ d.unit = " "
            /\ m = 1000 => d.data = 1 /\ d.unit = "K"
            /\ m = 1500000 => d.data = 1 /\ d.unit = "M"
            /\ m = 2000000000 => d.data = 2 /\ d.unit = "G"

\* C16's case: a value on a threshold was reduced to one unit of the new
\* scale.
C16_Witness ==
    /\ last.op = "denomination"
    /\ bars[1].curr = 1000000000
    /\ out[1].data = 1 /\ out[1].unit = "G"

(***************************************************************************)
(* C17: the fill field.                                                    *)
(***************************************************************************)
\* The last n characters of s.
Suffix(s, n) == SubSeq(s, Len(s) - n + 1, Len(s))

\* The w characters between "[" and "]", six characters before the end.
FillField(s, w) == SubSeq(s, Len(s) - (w + 6) + 1, Len(s) - 6)

\* C17: in every rendering the fill field, between "[" and "]", is
\* w = floor(term_width / 2) - 7 characters wide.  For an active row it is f
\* filled characters, the marker ">" and e empty ones, with
\* f = min(floor(w * curr / total), w - 1) and e = w - 1 - f, and the
\* percentage shown is floor(100 * curr / total), between 0 and 99.  For a row
\* with curr >= total it is w filled characters and "100%"; for a cancelled
\* row w cancel characters; for the initial line w empty characters.
C17_FillFieldIsFixedWidth ==
    \A i \in 1..Len(out) : out[i].k \in {"init", "bar"} =>
        LET w == (size[1] \div 2) - 7
            b == bars[1]
            text == out[i].text
            field == FillField(text, w)
            tail == Suffix(text, 6)
            q == (w * b.curr) \div b.total
            f == IF q < w - 1 THEN q ELSE w - 1
            e == w - 1 - f
            pct == (100 * b.curr) \div b.total
        IN  /\ Len(field) = w
            /\ Suffix(text, w + 7) = "[" \o field \o tail
            /\ out[i].k = "init" => field = Rep("-", w) /\ tail = "]   0%"
            /\ (out[i].k = "bar" /\ b.cancelled) =>
                  field = Rep("_", w) /\ Suffix(tail, 6) = "] ??? "
            /\ (out[i].k = "bar" /\ ~b.cancelled /\ b.curr >= b.total) =>
                  field = Rep("#", w) /\ tail = "] 100%"
            /\ (out[i].k = "bar" /\ ~b.cancelled /\ b.curr < b.total) =>
                  /\ field = Rep("#", f) \o ">" \o Rep("-", e)
                  /\ f >= 0 /\ e >= 0 /\ f + 1 + e = w
                  /\ pct \in 0..99
                  /\ tail = "] " \o PadLeft(ToString(pct), 3) \o "%"

\* C17's case: a row half way to its target on a terminal whose fill field
\* is five wide: two filled characters, the marker, two empty ones.
C17_Witness ==
    /\ last.op = "render_row"
    /\ ~bars[1].cancelled /\ 2 * bars[1].curr = bars[1].total
    /\ (size[1] \div 2) - 7 = 5
    /\ Suffix(out[1].text, 12) = "[##>--]  50%"

(***************************************************************************)
(* C18: where the sink is flushed.                                         *)
(***************************************************************************)
\* The positions of the flushes among the writes o.
Flushes(o) == {i \in 1..Len(o) : o[i].k = "flush"}

\* The writes o end with their only flush.
EndsWithOnlyFlush(o) == Len(o) > 0 /\ Flushes(o) = {Len(o)}

\* C18: every draw, set_and_draw, inc_and_draw and cancel ends with a flush
\* of the sink; the release of a log scope flushes exactly once, after the
\* last row it repaints; stderr and write_str do not flush.
C18_FlushDiscipline ==
    [][/\ last'.op \in DrawOps => EndsWithOnlyFlush(out')
       /\ last'.op = "drop" => EndsWithOnlyFlush(out')
       /\ last'.op \in {"stderr", "write_str"} => Flushes(out') = {}]_vars

(***************************************************************************)
(* C19: arithmetic faults.                                                 *)
(***************************************************************************)
\* C19: with every target positive, every handle valid, a terminal at least
\* 16 wide and 1 high and small values, no sequence of set, inc, draw,
\* set_and_draw, inc_and_draw, cancel, stderr and release ends in an
\* arithmetic fault, a value set below the last drawn one included.
C19_NoArithmeticFault ==
    /\ \A h \in 1..Len(bars) : bars[h].total > 0
    /\ size # <<>> => size[1] >= MinWidth /\ size[2] >= 1
    /\ fault \notin {"div_zero", "sub_overflow"}

(***************************************************************************)
(* C20: the layout of the stack of rows on the screen.                     *)
(***************************************************************************)
\* Row i of t's screen is where a redraw looks for it: Len(bs) - i lines
\* above the cursor.
RowInPlace(t, bs, h) ==
    /\ t.cur - (Len(bs) - h) >= 1
    /\ t.lines[t.cur - (Len(bs) - h)] = RowLine(h)

\* Every row of the window is in place.
Layout(t, bs) ==
    \A h \in 0..(Len(bs) - 1) : (Len(bs) - h) < size[2] => RowInPlace(t, bs, h)

\* C20: whenever no log scope is open, every row i with
\* (row count - i) < height is shown on the line (row count - i) above the
\* cursor, and that line shows no other row; a draw, inc_and_draw or cancel
\* of row i changes no line that showed another row or a log line.
C20_StackLayout ==
    [][/\ lock' = 0 => Layout(term', bars')
       /\ last'.op \in DrawOps =>
             \A l \in 1..Len(term.lines) :
                 \/ term'.lines[l] = term.lines[l]
                 \/ term.lines[l] = RowLine(Target(last'))]_vars

\* C20's case: a log scope was released over a stack of rows: the log line
\* is on the screen right above the topmost row, every row is in place one
\* line lower than before, and the cursor is below the last row.
C20_Witness ==
    /\ last.op = "drop" /\ lock = 0 /\ fault = "none"
    /\ Len(bars) >= 1
    /\ term.cur - Len(bars) - 1 >= 1
    /\ term.lines[term.cur - Len(bars) - 1] = LogLine
    /\ \A h \in 0..(Len(bars) - 1) : RowInPlace(term, bars, h)

(***************************************************************************)
(* C21: rows above the window.                                             *)
(***************************************************************************)
\* Row h of bs has drifted out of the window: it is term_height lines or more
\* above the cursor.
OutOfWindow(bs, h) == size # <<>> /\ Len(bs) - h >= size[2]

\* C21: the pause of a row that has drifted out of the window is permanent.
\* The row count never shrinks, so a row that is (row count - index) >=
\* term_height lines up stays so after every call; and no call (draw,
\* set_and_draw, inc_and_draw, cancel, or the release of a log scope) writes
\* the text of a row that is out of the window when the call is over, which
\* every row out of the window before the call is.
C21_PauseOutOfWindowIsPermanent ==
    [][/\ Len(bars') >= Len(bars)
       /\ \A h \in 0..(Len(bars) - 1) : OutOfWindow(bars, h) => OutOfWindow(bars', h)
       /\ \A h \in 0..(Len(bars') - 1) :
             OutOfWindow(bars', h) => ~Painted(out', h)]_vars

\* C21's case: row 0 is out of the window, set_and_draw took it to its
\* target, and neither that call painted it (its prev_percent is still 0)
\* nor did the release of a log scope before it.
C21_Witness ==
    /\ last.op = "set_and_draw" /\ Target(last) = 0 /\ fault = "none"
    /\ OutOfWindow(bars, 0)
    /\ bars[1].curr >= bars[1].total /\ bars[1].prev_percent = 0
    /\ ~Painted(out, 0)

====
